---- MODULE Spec2Model ----
(***************************************************************************)
(* PR review agent workflow (task/main.py): three agents with their tool   *)
(* lists and handoff lists, six tools, one shared state mapping and the    *)
(* hosting service the reviews are posted to.  The tools, the agents, the  *)
(* workflow configuration and the runner are translated from main.py.  The *)
(* handoff router that drives the turns is not part of main.py (main.py    *)
(* only constructs it and consumes its events); its transition rule is     *)
(* taken from the design description, sections 4.3, 4.4 and 7.             *)
(***************************************************************************)
EXTENDS Integers, Sequences, FiniteSets, TLC

(***************************************************************************)
(* Bounds of the model.                                                    *)
(***************************************************************************)
\* the configured turn ceiling of the router
MaxTurns == 4
\* the longest list of tool calls one turn requests
MaxCallsPerTurn == 2
\* the number of reviews the hosting service accepts in one run
MaxPosts == 2

\* the texts a language model passes to the tools
Texts == {"t1", "t2"}

(***************************************************************************)
(* Configuration: main.py lines 81-167.                                    *)
(***************************************************************************)
pr_number == 1

ToolNames ==
    {"get_pr_details", "get_commit_details", "add_context_to_state",
     "add_comment_to_state", "add_final_review_to_state", "post_review_to_github"}

AgentNames == {"ContextAgent", "CommentorAgent", "ReviewAndPostingAgent"}

\* a name no agent of the workflow carries, as a model may produce one
NoSuchAgent == "NoSuchAgent"

AgentToolsLeaky(a) ==
    CASE a = "ContextAgent" ->
            {"get_pr_details", "get_commit_details", "add_context_to_state"}
      [] a = "CommentorAgent" -> {"add_comment_to_state", "post_review_to_github"}
      [] a = "ReviewAndPostingAgent" ->
            {"add_final_review_to_state", "post_review_to_github"}
      [] OTHER -> {}

AgentToolsShared(a) ==
    CASE a = "ContextAgent" ->
            {"get_pr_details", "get_commit_details", "add_context_to_state"}
      [] a = "CommentorAgent" -> {"add_comment_to_state"}
      [] a = "ReviewAndPostingAgent" ->
            {"add_comment_to_state", "add_final_review_to_state",
             "post_review_to_github"}
      [] OTHER -> {}

\* tools=[...] of the three FunctionAgent constructions
AgentTools(a) ==
    CASE a = "ContextAgent" ->
            {"get_pr_details", "get_commit_details", "add_context_to_state"}
      [] a = "CommentorAgent" -> {"add_comment_to_state"}
      [] a = "ReviewAndPostingAgent" ->
            {"add_final_review_to_state", "post_review_to_github"}
      [] OTHER -> {}

CanHandoffToDangling(a) ==
    CASE a = "ContextAgent" -> {"CommentorAgent"}
      [] a = "CommentorAgent" -> {"ContextAgent", "ReviewAndPostingAgent"}
      [] a = "ReviewAndPostingAgent" -> {"CommentorAgent", "NoSuchAgent"}
      [] OTHER -> {}

CanHandoffToShortcut(a) ==
    CASE a = "ContextAgent" -> {"CommentorAgent", "ReviewAndPostingAgent"}
      [] a = "CommentorAgent" -> {"ContextAgent", "ReviewAndPostingAgent"}
      [] a = "ReviewAndPostingAgent" -> {"CommentorAgent"}
      [] OTHER -> {}

\* can_handoff_to=[...] of the three FunctionAgent constructions
CanHandoffTo(a) ==
    CASE a = "ContextAgent" -> {"CommentorAgent"}
      [] a = "CommentorAgent" -> {"ContextAgent", "ReviewAndPostingAgent"}
      [] a = "ReviewAndPostingAgent" -> {"CommentorAgent"}
      [] OTHER -> {}

root_agent_commentor == "CommentorAgent"

\* root_agent=review_and_posting_agent.name
root_agent == "ReviewAndPostingAgent"

\* initial_state={...}
initial_state ==
    [gathered_contexts |-> "", draft_comment |-> "", final_review_comment |-> ""]

(***************************************************************************)
(* Tools: main.py lines 29-77.  A tool either returns a value or raises;   *)
(* a state-write tool assigns one key of the mapping it is given (a Python *)
(* dict assignment creates the key when it is absent) and returns the      *)
(* mapping.  api_fails is the hosting service refusing the request.        *)
(***************************************************************************)
Returned(v) == [raised |-> FALSE, value |-> v]
Raised == [raised |-> TRUE, value |-> "GithubException"]

SetItem(d, key, v) == [k \in DOMAIN d \cup {key} |-> IF k = key THEN v ELSE d[k]]

get_pr_details_swallow(pr, api_fails) == Returned("pr_details")

get_pr_details(pr, api_fails) ==
    IF api_fails THEN Raised ELSE Returned("pr_details")

get_commit_details(head_sha, api_fails) ==
    IF api_fails THEN Raised ELSE Returned("commit_files")

add_context_to_state(st, context) == SetItem(st, "gathered_contexts", context)

add_comment_to_state_lost(st, draft_comment) == st

add_comment_to_state_typo(st, draft_comment) == SetItem(st, "draft", draft_comment)

add_comment_to_state(st, draft_comment) == SetItem(st, "draft_comment", draft_comment)

add_final_review_to_state_clobber(st, final_review) ==
    SetItem(SetItem(st, "final_review_comment", final_review), "draft_comment", "")

add_final_review_to_state(st, final_review) ==
    SetItem(st, "final_review_comment", final_review)

\* the reviews of the pull request afterwards, and the tool's return value
post_review_to_github(posted, pr, comment, api_fails) ==
    IF api_fails
    THEN [reviews |-> posted, result |-> Raised]
    ELSE [reviews |-> Append(posted, [pr |-> pr, body |-> comment]),
          result |-> Returned([status |-> "success", review_id |-> Len(posted) + 1])]

(***************************************************************************)
(* Run context of the router: the current agent, the shared state store,   *)
(* the turn counter, the outcome of the run, and the hosting service.      *)
(***************************************************************************)
VARIABLES
    current_agent,  \* the agent whose turn it is
    status,         \* "running", "terminated" or "failed"
    error,          \* the error a failed run surfaces, "none" otherwise
    state,          \* the shared state store, created from initial_state
    turn,           \* the number of completed turns
    calls,          \* the tool calls applied so far in the current turn
    reviews,        \* the reviews the hosting service holds for the PR
    output,         \* the recorded final output of a terminated run
    last,           \* the last request the router handled
    committed_state, \* the shared state as of the end of the last completed turn
    events,         \* the events the runner has taken from the stream
    main_current_agent, \* the local current_agent of main()
    printed         \* the lines main() has printed

router_vars ==
    <<current_agent, status, error, state, turn, calls, reviews, output, last,
      committed_state>>

runner_vars == <<events, main_current_agent, printed>>

vars == <<router_vars, runner_vars>>

\* Python's None
None == "None"

NoOutput == [agent |-> "none", review_id |-> 0]

\* executed: the tool ran, or the handoff or output took effect;
\* api_failed: the hosting service refused the request of the tool
Request(kind, name, arg, executed, api_failed) ==
    [kind |-> kind, agent |-> current_agent, turn |-> turn, name |-> name,
     arg |-> arg, executed |-> executed, api_failed |-> api_failed]

NoRequest ==
    [kind |-> "none", agent |-> "none", turn |-> 0, name |-> "none",
     arg |-> "", executed |-> FALSE, api_failed |-> FALSE]

Init ==
    /\ current_agent = root_agent
    /\ status = "running"
    /\ error = "none"
    /\ state = initial_state
    /\ turn = 0
    /\ calls = 0
    /\ reviews = <<>>
    /\ output = NoOutput
    /\ last = NoRequest
    /\ committed_state = initial_state
    /\ events = <<>>
    /\ main_current_agent = None
    /\ printed = <<>>

\* the run aborts and surfaces e; nothing else of the run context changes
Abort(e) ==
    /\ status' = "failed"
    /\ error' = e
    /\ UNCHANGED <<current_agent, state, turn, calls, reviews, output,
                   committed_state>>

CanCall == status = "running" /\ calls < MaxCallsPerTurn

\* a tool call outside the capability set of the current agent
CapabilityViolation(tool) ==
    /\ UNCHANGED runner_vars
    /\ CanCall
    /\ tool \notin AgentTools(current_agent)
    /\ last' = Request("tool", tool, "", FALSE, FALSE)
    /\ Abort("CapabilityViolationError")

\* a read tool: its result goes to the agent, a raise aborts the run
CallReadTool(tool, api_fails) ==
    /\ UNCHANGED runner_vars
    /\ CanCall
    /\ tool \in {"get_pr_details", "get_commit_details"}
    /\ tool \in AgentTools(current_agent)
    /\ LET r == IF tool = "get_pr_details"
                THEN get_pr_details(pr_number, api_fails)
                ELSE get_commit_details("head_sha", api_fails)
       IN  /\ last' = Request("tool", tool, "", TRUE, api_fails)
           /\ IF r.raised
              THEN Abort("ToolExecutionError")
              ELSE /\ calls' = calls + 1
                   /\ UNCHANGED <<current_agent, status, error, state, turn,
                                  reviews, output, committed_state>>

\* a state-write tool, applied to the shared state store
CallStateTool(tool, text) ==
    /\ UNCHANGED runner_vars
    /\ CanCall
    /\ tool \in {"add_context_to_state", "add_comment_to_state",
                 "add_final_review_to_state"}
    /\ tool \in AgentTools(current_agent)
    /\ state' = CASE tool = "add_context_to_state" ->
                        add_context_to_state(state, text)
                  [] tool = "add_comment_to_state" ->
                        add_comment_to_state(state, text)
                  [] tool = "add_final_review_to_state" ->
                        add_final_review_to_state(state, text)
    /\ calls' = calls + 1
    /\ last' = Request("tool", tool, text, TRUE, FALSE)
    /\ UNCHANGED <<current_agent, status, error, turn, reviews, output,
                   committed_state>>

\* the posting tool
CallPostReview(comment, api_fails) ==
    /\ UNCHANGED runner_vars
    /\ CanCall
    /\ "post_review_to_github" \in AgentTools(current_agent)
    /\ Len(reviews) < MaxPosts
    /\ LET p == post_review_to_github(reviews, pr_number, comment, api_fails)
       IN  /\ last' = Request("tool", "post_review_to_github", comment, TRUE,
                              api_fails)
           /\ IF p.result.raised
              THEN Abort("ToolExecutionError")
              ELSE /\ reviews' = p.reviews
                   /\ calls' = calls + 1
                   /\ UNCHANGED <<current_agent, status, error, state, turn,
                                  output, committed_state>>

NextTurnStuck(t) == t

\* the turn counter after one more completed turn
NextTurn(t) == t + 1

\* a handoff request naming a target outside the permitted set
RejectHandoff(target) ==
    /\ UNCHANGED runner_vars
    /\ status = "running"
    /\ target \notin CanHandoffTo(current_agent)
    /\ last' = Request("handoff", target, "", FALSE, FALSE)
    /\ Abort("InvalidHandoffError")

\* a permitted handoff ends the turn and transfers control
Handoff(target) ==
    /\ UNCHANGED runner_vars
    /\ status = "running"
    /\ target \in CanHandoffTo(current_agent)
    /\ NextTurn(turn) <= MaxTurns
    /\ turn' = NextTurn(turn)
    /\ current_agent' = target
    /\ calls' = 0
    /\ last' = Request("handoff", target, "", TRUE, FALSE)
    /\ committed_state' = state
    /\ UNCHANGED <<status, error, state, reviews, output>>

\* the terminal output of the root agent ends the turn and the run
TerminalOutput(rid) ==
    /\ UNCHANGED runner_vars
    /\ status = "running"
    /\ current_agent = root_agent
    /\ NextTurn(turn) <= MaxTurns
    /\ turn' = NextTurn(turn)
    /\ status' = "terminated"
    /\ output' = [agent |-> current_agent, review_id |-> rid]
    /\ last' = Request("output", "none", "", TRUE, FALSE)
    /\ committed_state' = state
    /\ UNCHANGED <<current_agent, error, state, calls, reviews>>

\* a turn that would complete beyond the ceiling
TurnLimitExceeded(kind, target) ==
    /\ UNCHANGED runner_vars
    /\ status = "running"
    /\ \/ kind = "handoff" /\ target \in CanHandoffTo(current_agent)
       \/ kind = "output" /\ target = "none" /\ current_agent = root_agent
    /\ NextTurn(turn) > MaxTurns
    /\ turn' = NextTurn(turn)
    /\ status' = "failed"
    /\ error' = "TurnLimitExceededError"
    /\ last' = Request(kind, target, "", FALSE, FALSE)
    /\ committed_state' = state
    /\ UNCHANGED <<current_agent, state, calls, reviews, output>>

\* a turn with neither a handoff nor an output that ends the run
ProtocolViolation(kind) ==
    /\ UNCHANGED runner_vars
    /\ status = "running"
    /\ \/ kind = "malformed"
       \/ kind = "output" /\ current_agent # root_agent
    /\ last' = Request(kind, "none", "", FALSE, FALSE)
    /\ Abort("ProtocolViolationError")

Next ==
    \/ \E tool \in ToolNames : CapabilityViolation(tool)
    \/ \E tool \in ToolNames, api_fails \in BOOLEAN : CallReadTool(tool, api_fails)
    \/ \E tool \in ToolNames, text \in Texts : CallStateTool(tool, text)
    \/ \E comment \in Texts \cup {""}, api_fails \in BOOLEAN :
            CallPostReview(comment, api_fails)
    \/ \E target \in AgentNames \cup {NoSuchAgent} : RejectHandoff(target)
    \/ \E target \in AgentNames \cup {NoSuchAgent} : Handoff(target)
    \/ \E rid \in 0..MaxPosts : TerminalOutput(rid)
    \/ \E kind \in {"handoff", "output"}, target \in AgentNames \cup {"none"} :
            TurnLimitExceeded(kind, target)
    \/ \E kind \in {"malformed", "output"} : ProtocolViolation(kind)

Spec == Init /\ [][Next]_vars

\* the runner drives the router until the run ends
FairSpec == Spec /\ WF_vars(Next)

(***************************************************************************)
(* Runner: main.py lines 173-191.  main() takes the events of the stream   *)
(* one by one; an event may or may not carry current_agent_name.           *)
(***************************************************************************)
\* the longest event stream main() is given
MaxEvents == 3

\* an event without the attribute current_agent_name
Absent == "<absent>"

EventTypes == {"AgentOutput", "ToolCall", "ToolCallResult", "Other"}

Event(type, name, content, tool_calls) ==
    [type |-> type, current_agent_name |-> name, content |-> content,
     tool_calls |-> tool_calls,
     tool_name |-> IF type = "ToolCall" THEN "get_pr_details" ELSE "",
     tool_output |-> IF type = "ToolCallResult" THEN "pr_details" ELSE ""]

\* the events a stream can hold
StreamEvents ==
    LET names == {Absent, "ContextAgent", "CommentorAgent"}
    IN  {Event("AgentOutput", n, c, tc) :
            n \in names, c \in {"", "text"}, tc \in {<<>>, <<"get_pr_details">>}}
        \cup {Event(t, n, "", <<>>) :
            t \in EventTypes \ {"AgentOutput"}, n \in names}

\* one print call, for the event at position event of the stream
Line(kind, event, text, tools) ==
    [kind |-> kind, event |-> event, text |-> text, tools |-> tools]

main_loop_body_no_compare(event, cur, idx) ==
    IF event.current_agent_name # Absent
    THEN [current_agent |-> event.current_agent_name,
          lines |-> <<Line("switch", idx, event.current_agent_name, <<>>)>>]
    ELSE [current_agent |-> cur,
          lines |->
            CASE event.type = "AgentOutput" ->
                    (IF event.content # ""
                     THEN <<Line("final", idx, event.content, <<>>)>> ELSE <<>>)
                    \o (IF event.tool_calls # <<>>
                        THEN <<Line("selected", idx, "", event.tool_calls)>>
                        ELSE <<>>)
              [] event.type = "ToolCall" ->
                    <<Line("call", idx, event.tool_name, <<>>)>>
              [] event.type = "ToolCallResult" ->
                    <<Line("output", idx, event.tool_output, <<>>)>>
              [] OTHER -> <<>>]

\* the body of the async for loop: the new current_agent and the lines printed
main_loop_body(event, cur, idx) ==
    IF event.current_agent_name # Absent /\ event.current_agent_name # cur
    THEN [current_agent |-> event.current_agent_name,
          lines |-> <<Line("switch", idx, event.current_agent_name, <<>>)>>]
    ELSE [current_agent |-> cur,
          lines |->
            CASE event.type = "AgentOutput" ->
                    (IF event.content # ""
                     THEN <<Line("final", idx, event.content, <<>>)>> ELSE <<>>)
                    \o (IF event.tool_calls # <<>>
                        THEN <<Line("selected", idx, "", event.tool_calls)>>
                        ELSE <<>>)
              [] event.type = "ToolCall" ->
                    <<Line("call", idx, event.tool_name, <<>>)>>
              [] event.type = "ToolCallResult" ->
                    <<Line("output", idx, event.tool_output, <<>>)>>
              [] OTHER -> <<>>]

\* one iteration of the loop over handler.stream_events()
ConsumeEvent(event) ==
    /\ Len(events) < MaxEvents
    /\ LET r == main_loop_body(event, main_current_agent, Len(events) + 1)
       IN  /\ main_current_agent' = r.current_agent
           /\ printed' = printed \o r.lines
    /\ events' = Append(events, event)
    /\ UNCHANGED router_vars

RunnerNext == \E event \in StreamEvents : ConsumeEvent(event)

RunnerSpec == Init /\ [][RunnerNext]_vars

(***************************************************************************)
(* Properties.                                                             *)
(***************************************************************************)
ReadTools == {"get_pr_details", "get_commit_details"}

DeclaredTools(a) ==
    CASE a = "ContextAgent" ->
            {"get_pr_details", "get_commit_details", "add_context_to_state"}
      [] a = "CommentorAgent" -> {"add_comment_to_state"}
      [] a = "ReviewAndPostingAgent" ->
            {"add_final_review_to_state", "post_review_to_github"}
      [] OTHER -> {}

DeclaredEdges ==
    {<<"ContextAgent", "CommentorAgent">>,
     <<"CommentorAgent", "ContextAgent">>,
     <<"CommentorAgent", "ReviewAndPostingAgent">>,
     <<"ReviewAndPostingAgent", "CommentorAgent">>}

DeclaredFields == {"gathered_contexts", "draft_comment", "final_review_comment"}

WriterOf(f) ==
    CASE f = "gathered_contexts" -> "add_context_to_state"
      [] f = "draft_comment" -> "add_comment_to_state"
      [] f = "final_review_comment" -> "add_final_review_to_state"

\* C1: a request of the current agent for a tool outside its own tools list
\* yields CapabilityViolationError, the tool is not executed, and the step
\* changes neither the shared state nor the reviews of the hosting service.
C1_CapabilityEnforcement ==
    /\ []((last.kind = "tool" /\ last.name \notin DeclaredTools(last.agent))
            => (/\ ~last.executed
                /\ status = "failed"
                /\ error = "CapabilityViolationError"))
    /\ [][(last'.kind = "tool" /\ last'.name \notin DeclaredTools(last'.agent))
            => (state' = state /\ reviews' = reviews)]_vars

C1_Witness ==
    /\ error = "CapabilityViolationError"
    /\ last.agent = "CommentorAgent"
    /\ last.name = "post_review_to_github"
    /\ state.draft_comment # ""

\* C2: the current agent of a running run is one of the three configured
\* agents, and every name in a can_handoff_to list and the root agent name
\* refer to an agent of the workflow's agent list.
C2_AgentsConfigured ==
    /\ \/ current_agent \in {"ContextAgent", "CommentorAgent", "ReviewAndPostingAgent"}
       \/ status = "terminated"
    /\ \A a \in AgentNames : CanHandoffTo(a) \subseteq AgentNames
    /\ root_agent \in AgentNames

C2_Witness ==
    /\ last.kind = "handoff"
    /\ last.name = NoSuchAgent
    /\ error = "InvalidHandoffError"
    /\ current_agent = "ContextAgent"

\* C3: the current agent changes only along an edge of the declared handoff
\* graph; a handoff request naming any other target is rejected with
\* InvalidHandoffError and control stays with the requesting agent.
C3_HandoffGraph ==
    /\ [][current_agent' # current_agent
            => <<current_agent, current_agent'>> \in DeclaredEdges]_vars
    /\ []((last.kind = "handoff" /\ <<last.agent, last.name>> \notin DeclaredEdges)
            => (/\ ~last.executed
                /\ status = "failed"
                /\ error = "InvalidHandoffError"
                /\ current_agent = last.agent))

C3_Witness ==
    /\ last.kind = "handoff"
    /\ last.agent = "ContextAgent"
    /\ last.name = "ReviewAndPostingAgent"
    /\ error = "InvalidHandoffError"

\* a step that completes a turn: control is transferred, the run terminates,
\* or the completed turn takes the counter beyond the ceiling
TurnCompletes ==
    \/ current_agent' # current_agent
    \/ status = "running" /\ status' = "terminated"
    \/ status = "running" /\ error' = "TurnLimitExceededError"

\* C4: the turn counter increases by exactly one at each completed turn and
\* at no other step; a run terminates only within the ceiling, is aborted
\* with TurnLimitExceededError exactly when the counter exceeds the ceiling,
\* and every run eventually ends.
C4_TurnsAndTermination ==
    /\ [][IF TurnCompletes THEN turn' = turn + 1 ELSE turn' = turn]_vars
    /\ [](status = "terminated" => turn <= MaxTurns)
    /\ [](turn > MaxTurns <=> error = "TurnLimitExceededError")
    /\ [](error = "TurnLimitExceededError" => status = "failed")
    /\ <>(status # "running")

C4_Witness ==
    /\ status = "failed"
    /\ error = "TurnLimitExceededError"
    /\ turn = MaxTurns + 1
    /\ last.kind = "handoff"
    /\ reviews = <<>>

ReadFailed == last.kind = "tool" /\ last.name \in ReadTools /\ last.api_failed

\* C5 as stated: when a read tool fails the run aborts with
\* ToolExecutionError and draft_comment still holds its initial empty value.
C5_DraftEmptyAfterReadFailure ==
    ReadFailed => (/\ status = "failed"
                   /\ error = "ToolExecutionError"
                   /\ state.draft_comment = "")

\* C5 amended: when a read tool fails the run aborts with ToolExecutionError
\* at that call, no request is handled afterwards, the failing call changes
\* no shared-state field, and draft_comment differs from its initial empty
\* value only through a completed add_comment_to_state call.
C5_AbortOnReadFailure ==
    /\ [](ReadFailed => (status = "failed" /\ error = "ToolExecutionError"))
    /\ [][status = "running"]_vars
    /\ [][(last'.kind = "tool" /\ last'.api_failed) => state' = state]_vars
    /\ [][state'.draft_comment # state.draft_comment
            => (/\ last'.name = "add_comment_to_state"
                /\ last'.agent = "CommentorAgent"
                /\ last'.executed)]_vars

C5_Witness ==
    /\ ReadFailed
    /\ last.name = "get_pr_details"
    /\ error = "ToolExecutionError"
    /\ state.draft_comment = ""
    /\ state.gathered_contexts = ""

\* C6: a run that ends in failure has posted no review to the hosting
\* service at any point of the run.
C6_NoPostInFailedRun == status = "failed" => reviews = <<>>

C8_WritesVisible ==
    /\ [](\A f \in DeclaredFields :
            (last.kind = "tool" /\ last.name = WriterOf(f) /\ last.executed)
                => state[f] = last.arg)
    /\ [][\A f \in DeclaredFields :
            state'[f] # state[f]
                => (/\ last'.name = WriterOf(f)
                    /\ last'.executed
                    /\ last'.arg = state'[f])]_vars

C8_Witness ==
    /\ current_agent = "ReviewAndPostingAgent"
    /\ last.kind = "handoff"
    /\ turn >= 3
    /\ state.draft_comment = "t1"
    /\ state.gathered_contexts = "t2"

\* C9: the shared state starts with the three declared fields, each the
\* empty string, and its set of field names is the same three in every
\* reachable state.
C9_FieldsFixed ==
    /\ state = [gathered_contexts |-> "", draft_comment |-> "",
                final_review_comment |-> ""]
    /\ [](DOMAIN state = DeclaredFields)

C9_Witness ==
    /\ state.gathered_contexts # ""
    /\ state.draft_comment # ""
    /\ state.final_review_comment # ""

\* C10: once post_review_to_github has completed, the next step of the run
\* is its end with an output carrying the identifier of the posted review:
\* no tool call and no handoff follows, and a run never posts two reviews.
C10_PostingEndsRun ==
    /\ [][(reviews # <<>> /\ status = "running")
            => (/\ status' = "terminated"
                /\ output'.review_id = Len(reviews)
                /\ reviews' = reviews)]_vars
    /\ [](Len(reviews) <= 1)

\* C11: re-invoking post_review_to_github with an identical review and PR
\* identifier creates no second review (it returns the identifier of the
\* first one or is rejected), and a post changes no shared-state field.
C11_PostIdempotent ==
    /\ [](\A i, j \in 1..Len(reviews) : reviews[i] = reviews[j] => i = j)
    /\ [][reviews' # reviews => state' = state]_vars

\* C12: post_review_to_github is never executed while draft_comment still
\* holds its initial empty value.
C12_NoPostWithoutDraft ==
    [][reviews' # reviews => state.draft_comment # ""]_vars

\* C13: whenever ContextAgent hands control to CommentorAgent,
\* gathered_contexts no longer holds its initial empty value.
C13_ContextBeforeHandoff ==
    [][(current_agent = "ContextAgent" /\ current_agent' = "CommentorAgent")
            => state.gathered_contexts # ""]_vars

StateTools ==
    {"add_context_to_state", "add_comment_to_state", "add_final_review_to_state"}

\* C16: a completed state-write tool call assigns its own field of the
\* mapping to the value of the call and leaves the other two fields as they
\* were; a call of get_pr_details, get_commit_details or
\* post_review_to_github changes no field of the shared state.
C16_ToolFrames ==
    /\ [][(last'.kind = "tool" /\ last'.executed /\ last'.name \in StateTools)
            => \E f \in DeclaredFields :
                    /\ WriterOf(f) = last'.name
                    /\ state' = [state EXCEPT ![f] = last'.arg]]_vars
    /\ [][(last'.kind = "tool" /\ last'.name \notin StateTools)
            => state' = state]_vars

C16_Witness ==
    /\ last.kind = "tool"
    /\ last.name = "add_final_review_to_state"
    /\ state.final_review_comment = "t2"
    /\ state.draft_comment = "t1"
    /\ state.gathered_contexts = "t1"

\* C17: gathered_contexts changes only in a turn of ContextAgent,
\* draft_comment only in a turn of CommentorAgent, final_review_comment only
\* in a turn of ReviewAndPostingAgent, and a review is posted only in a turn
\* of ReviewAndPostingAgent.
C17_FieldOwnership ==
    [][/\ state'.gathered_contexts # state.gathered_contexts
            => (current_agent = "ContextAgent" /\ current_agent' = current_agent)
       /\ state'.draft_comment # state.draft_comment
            => (current_agent = "CommentorAgent" /\ current_agent' = current_agent)
       /\ state'.final_review_comment # state.final_review_comment
            => (current_agent = "ReviewAndPostingAgent"
                /\ current_agent' = current_agent)
       /\ reviews' # reviews
            => (current_agent = "ReviewAndPostingAgent"
                /\ current_agent' = current_agent)]_vars

C17_Witness ==
    /\ state.gathered_contexts # ""
    /\ state.draft_comment # ""
    /\ state.final_review_comment # ""
    /\ reviews # <<>>
    /\ last.name = "post_review_to_github"

\* the current_agent_name values the events carry, in stream order
RECURSIVE NamesCarried(_)
NamesCarried(evs) ==
    IF evs = <<>> THEN <<>>
    ELSE (IF Head(evs).current_agent_name = Absent
          THEN <<>> ELSE <<Head(evs).current_agent_name>>)
         \o NamesCarried(Tail(evs))

\* names with every repetition of the name before it removed
RECURSIVE Deduplicated(_, _)
Deduplicated(names, before) ==
    IF names = <<>> THEN <<>>
    ELSE (IF Head(names) = before THEN <<>> ELSE <<Head(names)>>)
         \o Deduplicated(Tail(names), Head(names))

IsNotice(line) == line.kind = "switch"

Notices == SelectSeq(printed, IsNotice)

\* C18: the agent-switch notices are exactly the de-duplicated sequence of
\* the current_agent_name values the events carry (none announced at first),
\* no two consecutive notices name the same agent, each notice names the
\* agent its event carries, and an event that triggers a notice is printed
\* as that notice only.
C18_NoticesDeduplicated ==
    /\ [i \in 1..Len(Notices) |-> Notices[i].text]
            = Deduplicated(NamesCarried(events), None)
    /\ \A i \in 1..(Len(Notices) - 1) : Notices[i].text # Notices[i + 1].text
    /\ \A i \in 1..Len(printed) :
            IsNotice(printed[i])
                => /\ events[printed[i].event].current_agent_name = printed[i].text
                   /\ \A j \in 1..Len(printed) :
                        printed[j].event = printed[i].event => j = i
    /\ main_current_agent
            = IF Notices = <<>> THEN None ELSE Notices[Len(Notices)].text

C18_Witness ==
    /\ Len(events) = 3
    /\ events[1].type = "AgentOutput"
    /\ events[1].content # ""
    /\ events[1].current_agent_name = "ContextAgent"
    /\ events[2].type = "AgentOutput"
    /\ events[2].current_agent_name = "ContextAgent"
    /\ events[2].tool_calls # <<>>
    /\ events[3].current_agent_name = "CommentorAgent"
    /\ Len(Notices) = 2
    /\ Len(printed) = 4

====
